---- MODULE Spec2Model ----
(***************************************************************************)
(* Model of pdftocgen/filter.py: the span predicates (admits_float,        *)
(* FontFilter, BoundingBoxFilter, ToCFilter), the run merger               *)
(* (merge_optional) and the extractor (extract_toc).                       *)
(*                                                                         *)
(* Encoding of Python values                                               *)
(*   dict          a function whose DOMAIN is the set of keys present      *)
(*   Optional[T]   None is <<>>, a present value v is <<v>>                *)
(*   float         [k |-> "fin", v |-> n] is the double n.0 (a whole       *)
(*                 number), [k |-> "1e-5", v |-> 0] the double 1e-5,       *)
(*                 [k |-> "inf", v |-> 1 or -1], [k |-> "nan", v |-> 0]    *)
(*   str           a sequence of one-character strings                     *)
(*   list, tuple   a sequence                                              *)
(*   an outcome    [exc |-> "none", val |-> v] for a return value,         *)
(*                 [exc |-> e, val |-> <<>>] for a raised exception e      *)
(***************************************************************************)
EXTENDS Integers, Sequences, FiniteSets, TLC

VARIABLES pc, call, obj, ret

vars == <<pc, call, obj, ret>>

(***************************************************************************)
(* Python values                                                           *)
(***************************************************************************)
None == <<>>

Some(v) == <<v>>

Get(d, key, default) == IF key \in DOMAIN d THEN d[key] ELSE default

GetOpt(d, key) == IF key \in DOMAIN d THEN Some(d[key]) ELSE None

Returned(v) == [exc |-> "none", val |-> v]

Raised(e) == [exc |-> e, val |-> <<>>]

NoCall == [op |-> "none"]

(***************************************************************************)
(* IEEE-754 doubles, as far as filter.py uses them: subtraction, abs, <=   *)
(* and <.  Fin(n) is the whole number n, small enough that the difference  *)
(* of two of them is computed without rounding.  DEF_TOLERANCE is the      *)
(* double 1e-5, which lies between Fin(0) and Fin(1); it is used as a      *)
(* tolerance and is never an operand of the subtraction (the difference    *)
(* of 1e-5 and a whole number is rounded and is no value of this model).   *)
(***************************************************************************)
Fin(n) == [k |-> "fin", v |-> n]

PosInf == [k |-> "inf", v |-> 1]

NegInf == [k |-> "inf", v |-> -1]

NaN == [k |-> "nan", v |-> 0]

DEF_TOLERANCE == [k |-> "1e-5", v |-> 0]

FSub(a, b) ==
    CASE a.k = "nan" \/ b.k = "nan" -> NaN
      [] a.k = "fin" /\ b.k = "fin" -> Fin(a.v - b.v)
      [] a.k = "inf" /\ b.k = "fin" -> a
      [] a.k = "fin" /\ b.k = "inf" -> [k |-> "inf", v |-> 0 - b.v]
      [] a.k = "inf" /\ b.k = "inf" -> IF a.v = b.v THEN NaN ELSE a

FAbs(a) ==
    CASE a.k = "nan" -> NaN
      [] a.k = "inf" -> PosInf
      [] a.k = "1e-5" -> a
      [] a.k = "fin" -> Fin(IF a.v < 0 THEN 0 - a.v ELSE a.v)

(* the place of a finite double in the order: 0.0 < 1e-5 < 1.0 *)
Place(a) == IF a.k = "1e-5" THEN 1 ELSE 2 * a.v

FLess(a, b) ==
    CASE a.k = "nan" \/ b.k = "nan" -> FALSE
      [] a.k = "inf" /\ b.k = "inf" -> a.v < b.v
      [] a.k = "inf" -> a.v < 0
      [] b.k = "inf" -> b.v > 0
      [] OTHER -> Place(a) < Place(b)

FLessEq(a, b) ==
    CASE a.k = "nan" \/ b.k = "nan" -> FALSE
      [] OTHER -> FLess(a, b) \/ a = b

(***************************************************************************)
(* admits_float                                                            *)
(***************************************************************************)
(* admits_float with < in place of <= *)
admits_float_strict(expect, actual, tolerance) ==
    (expect = None) \/
    (actual # None /\ FLess(FAbs(FSub(expect[1], actual[1])), tolerance))

admits_float(expect, actual, tolerance) ==
    (expect = None) \/
    (actual # None /\ FLessEq(FAbs(FSub(expect[1], actual[1])), tolerance))

(***************************************************************************)
(* Python int bit operations: unbounded two's complement.  \div rounds     *)
(* toward minus infinity and % is non-negative, so a % 2 is the low bit    *)
(* and a \div 2 the arithmetic shift; every int ends in all-0 or all-1.    *)
(***************************************************************************)
BitNot(a) == 0 - a - 1

RECURSIVE BitXor(_, _)
BitXor(a, b) ==
    IF a \in {0, -1} /\ b \in {0, -1}
    THEN IF a = b THEN 0 ELSE -1
    ELSE (((a % 2) + (b % 2)) % 2) + 2 * BitXor(a \div 2, b \div 2)

RECURSIVE BitAnd(_, _)
BitAnd(a, b) ==
    IF a \in {0, -1} /\ b \in {0, -1}
    THEN IF a = -1 /\ b = -1 THEN -1 ELSE 0
    ELSE ((a % 2) * (b % 2)) + 2 * BitAnd(a \div 2, b \div 2)

RECURSIVE BitOr(_, _)
BitOr(a, b) ==
    IF a \in {0, -1} /\ b \in {0, -1}
    THEN IF a = 0 /\ b = 0 THEN 0 ELSE -1
    ELSE (IF a % 2 = 1 \/ b % 2 = 1 THEN 1 ELSE 0)
         + 2 * BitOr(a \div 2, b \div 2)

(* int * bool: True is 1, False is 0 *)
TimesBool(n, b) == IF b THEN n ELSE 0

(***************************************************************************)
(* re.compile(pattern) and compiled.search(string), for patterns written   *)
(* with ordinary characters and the special characters . * | ^ $ ( ) [     *)
(* (no ] + ? { } or backslash): alternation, concatenation, groups, the    *)
(* star, the two anchors and the dot.                                      *)
(***************************************************************************)
Count(pattern, lo, hi, c) == Cardinality({k \in lo..hi : pattern[k] = c})

(* re.compile succeeds: a [ never finds its ], the parentheses balance,   *)
(* and every * follows something that can be repeated                     *)
Compiles(pattern) ==
    /\ \A i \in 1..Len(pattern) : pattern[i] # "["
    /\ \A i \in 1..Len(pattern) :
          Count(pattern, 1, i, ")") <= Count(pattern, 1, i, "(")
    /\ Count(pattern, 1, Len(pattern), ")")
          = Count(pattern, 1, Len(pattern), "(")
    /\ \A i \in 1..Len(pattern) :
          pattern[i] = "*" =>
              i > 1 /\ pattern[i - 1] \notin {"*", "|", "(", "^", "$"}

(* the ) that closes the ( at i *)
CloseOf(pattern, i) ==
    CHOOSE j \in i..Len(pattern) :
        /\ Count(pattern, i, j, "(") = Count(pattern, i, j, ")")
        /\ \A m \in i..(j - 1) :
              Count(pattern, i, m, "(") # Count(pattern, i, m, ")")

(* the | of pattern[lo..hi] that are outside every group of it *)
TopBars(pattern, lo, hi) ==
    {j \in lo..hi : /\ pattern[j] = "|"
                    /\ Count(pattern, lo, j, "(") = Count(pattern, lo, j, ")")}

RECURSIVE RxAlt(_, _, _, _, _)
RECURSIVE RxSeq(_, _, _, _, _)
RECURSIVE RxAtom(_, _, _, _, _)
RECURSIVE RxStar(_, _, _, _, _)

(* Each of these gives the positions of string (0..Len(string), counted   *)
(* in characters consumed) where a match of pattern[lo..hi] can end when  *)
(* it starts at a position of cur.                                        *)
RxAlt(pattern, lo, hi, string, cur) ==
    LET bars == TopBars(pattern, lo, hi)
        starts == {lo} \cup {j + 1 : j \in bars}
        EndOfBranch(st) ==
            IF \E j \in bars : j >= st
            THEN (CHOOSE j \in bars :
                     j >= st /\ \A m \in bars : m >= st => j <= m) - 1
            ELSE hi
    IN  UNION {RxSeq(pattern, st, EndOfBranch(st), string, cur) :
               st \in starts}

(* the atom pattern[lo..e]: a group, the dot, an anchor or a character *)
RxAtom(pattern, lo, e, string, cur) ==
    CASE pattern[lo] = "(" -> RxAlt(pattern, lo + 1, e - 1, string, cur)
      [] pattern[lo] = "." ->
            {i + 1 : i \in {m \in cur : m < Len(string)
                                        /\ string[m + 1] # "\n"}}
      [] pattern[lo] = "^" -> {i \in cur : i = 0}
      [] pattern[lo] = "$" ->
            {i \in cur : \/ i = Len(string)
                         \/ i = Len(string) - 1 /\ string[i + 1] = "\n"}
      [] OTHER ->
            {i + 1 : i \in {m \in cur : m < Len(string)
                                        /\ string[m + 1] = pattern[lo]}}

(* the atom any number of times *)
RxStar(pattern, lo, e, string, cur) ==
    LET more == cur \cup RxAtom(pattern, lo, e, string, cur)
    IN  IF more = cur THEN cur ELSE RxStar(pattern, lo, e, string, more)

RxSeq(pattern, lo, hi, string, cur) ==
    IF lo > hi \/ cur = {} THEN cur
    ELSE LET e == IF pattern[lo] = "(" THEN CloseOf(pattern, lo) ELSE lo
         IN  IF e < hi /\ pattern[e + 1] = "*"
             THEN RxSeq(pattern, e + 2, hi, string,
                        RxStar(pattern, lo, e, string, cur))
             ELSE RxSeq(pattern, e + 1, hi, string,
                        RxAtom(pattern, lo, e, string, cur))

(* compiled.search(string) finds a match, pattern being one that compiles *)
Search(pattern, string) ==
    RxAlt(pattern, 1, Len(pattern), string, 0..Len(string)) # {}

(***************************************************************************)
(* FontFilter.  __init__ gives the exception raised, if any, and the       *)
(* attributes assigned to self up to then.                                 *)
(***************************************************************************)
ReError == "re.error"

FontFilter_init(font_dict) ==
    IF ~Compiles(Get(font_dict, "name", <<>>))
    THEN [exc |-> ReError, self |-> <<>>]
    ELSE [exc |-> "none",
          self |->
    [name |-> Get(font_dict, "name", <<>>),
     size |-> GetOpt(font_dict, "size"),
     size_tolerance |-> Get(font_dict, "size_tolerance", DEF_TOLERANCE),
     color |-> GetOpt(font_dict, "color"),
     flags |->
        BitOr(TimesBool(1, Get(font_dict, "superscript", FALSE)),
        BitOr(TimesBool(2, Get(font_dict, "italic", FALSE)),
        BitOr(TimesBool(4, Get(font_dict, "serif", FALSE)),
        BitOr(TimesBool(8, Get(font_dict, "monospace", FALSE)),
              TimesBool(16, Get(font_dict, "bold", FALSE)))))),
     ign_mask |->
        BitOr(TimesBool(1, "superscript" \in DOMAIN font_dict),
        BitOr(TimesBool(2, "italic" \in DOMAIN font_dict),
        BitOr(TimesBool(4, "serif" \in DOMAIN font_dict),
        BitOr(TimesBool(8, "monospace" \in DOMAIN font_dict),
              TimesBool(16, "bold" \in DOMAIN font_dict)))))]]

(* FontFilter.admits comparing all five bits, ign_mask left out *)
FontFilter_admits_nomask(self, spn) ==
    IF ~Search(self.name, Get(spn, "font", <<>>)) THEN FALSE
    ELSE IF self.color # None /\ self.color # GetOpt(spn, "color") THEN FALSE
    ELSE IF ~admits_float(self.size, GetOpt(spn, "size"), self.size_tolerance)
         THEN FALSE
    ELSE LET flags == Get(spn, "flags", BitNot(self.flags))
         IN  BitAnd(BitXor(flags, self.flags), 31) = 0

FontFilter_admits(self, spn) ==
    IF ~Search(self.name, Get(spn, "font", <<>>)) THEN FALSE
    ELSE IF self.color # None /\ self.color # GetOpt(spn, "color") THEN FALSE
    ELSE IF ~admits_float(self.size, GetOpt(spn, "size"), self.size_tolerance)
         THEN FALSE
    ELSE LET flags == Get(spn, "flags", BitNot(self.flags))
         IN  BitAnd(BitXor(flags, self.flags), self.ign_mask) = 0

(***************************************************************************)
(* BoundingBoxFilter                                                       *)
(***************************************************************************)
BoundingBoxFilter_init(bbox_dict) ==
    [left |-> GetOpt(bbox_dict, "left"),
     top |-> GetOpt(bbox_dict, "top"),
     right |-> GetOpt(bbox_dict, "right"),
     bottom |-> GetOpt(bbox_dict, "bottom"),
     tolerance |-> Get(bbox_dict, "tolerance", DEF_TOLERANCE)]

(* the default of spn.get('bbox', ...) is a tuple of four None *)
SpanBBox(spn) ==
    IF "bbox" \in DOMAIN spn
    THEN [i \in 1..4 |-> Some(spn["bbox"][i])]
    ELSE <<None, None, None, None>>

(* BoundingBoxFilter.admits testing top against bbox[0] *)
BoundingBoxFilter_admits_swapped(self, spn) ==
    LET bbox == SpanBBox(spn)
    IN  /\ admits_float(self.left, bbox[1], self.tolerance)
        /\ admits_float(self.top, bbox[1], self.tolerance)
        /\ admits_float(self.right, bbox[3], self.tolerance)
        /\ admits_float(self.bottom, bbox[4], self.tolerance)

BoundingBoxFilter_admits(self, spn) ==
    LET bbox == SpanBBox(spn)
    IN  /\ admits_float(self.left, bbox[1], self.tolerance)
        /\ admits_float(self.top, bbox[2], self.tolerance)
        /\ admits_float(self.right, bbox[3], self.tolerance)
        /\ admits_float(self.bottom, bbox[4], self.tolerance)

(***************************************************************************)
(* ToCFilter.  self is the attribute dict of the object under              *)
(* construction: an attribute that __init__ never assigned is absent.      *)
(***************************************************************************)
LevelNotSet == "ValueError: filter's 'level' is not set"

LevelTooSmall == "ValueError: filter's 'level' must be >= 1"

(* ToCFilter.__init__ testing level < 0 in place of level < 1 *)
ToCFilter_init_nonnegative(fltr_dict) ==
    LET level == GetOpt(fltr_dict, "level")
        font == FontFilter_init(Get(fltr_dict, "font", <<>>))
    IN  IF level = None
        THEN [exc |-> LevelNotSet, self |-> [level |-> level]]
        ELSE IF level[1] < 0
        THEN [exc |-> LevelTooSmall, self |-> [level |-> level]]
        ELSE IF font.exc # "none"
        THEN [exc |-> font.exc, self |-> [level |-> level]]
        ELSE [exc |-> "none",
              self |-> [level |-> level,
                        font |-> font.self,
                        bbox |-> BoundingBoxFilter_init(
                                     Get(fltr_dict, "bbox", <<>>))]]

ToCFilter_init(fltr_dict) ==
    LET level == GetOpt(fltr_dict, "level")
        font == FontFilter_init(Get(fltr_dict, "font", <<>>))
    IN  IF level = None
        THEN [exc |-> LevelNotSet, self |-> [level |-> level]]
        ELSE IF level[1] < 1
        THEN [exc |-> LevelTooSmall, self |-> [level |-> level]]
        ELSE IF font.exc # "none"
        THEN [exc |-> font.exc, self |-> [level |-> level]]
        ELSE [exc |-> "none",
              self |-> [level |-> level,
                        font |-> font.self,
                        bbox |-> BoundingBoxFilter_init(
                                     Get(fltr_dict, "bbox", <<>>))]]

ToCFilter_admits(self, spn) ==
    FontFilter_admits(self.font, spn) /\ BoundingBoxFilter_admits(self.bbox, spn)

(* spn.get('bbox', (0, 0))[1] *)
SpanTop(spn) == IF "bbox" \in DOMAIN spn THEN spn["bbox"][2] ELSE Fin(0)

(* (text or None, bbox.top) for an admitted span, None for any other *)
extract_spans(self, spns) ==
    [i \in 1..Len(spns) |->
        IF ToCFilter_admits(self, spns[i])
        THEN <<GetOpt(spns[i], "text"), SpanTop(spns[i])>>
        ELSE None]

RECURSIVE Chain(_)
Chain(lists) ==
    IF lists = <<>> THEN <<>> ELSE Head(lists) \o Chain(Tail(lists))

extract_lines(self, lines) ==
    Chain([i \in 1..Len(lines) |->
              extract_spans(self, Get(lines[i], "spans", <<>>))])

(***************************************************************************)
(* merge_optional                                                          *)
(***************************************************************************)
(* itertools.groupby(ls, lambda x: x is None): the consecutive groups *)
RECURSIVE GroupBy(_)
GroupBy(ls) ==
    IF ls = <<>> THEN <<>>
    ELSE LET key == (Head(ls) = None)
             n == CHOOSE m \in 1..Len(ls) :
                     /\ \A i \in 1..m : (ls[i] = None) = key
                     /\ m = Len(ls) \/ (ls[m + 1] = None) # key
         IN  <<[key |-> key, grp |-> SubSeq(ls, 1, n)]>>
             \o GroupBy(SubSeq(ls, n + 1, Len(ls)))

(* sep.join(strs) for strs that are all str, left to right *)
RECURSIVE JoinFrom(_, _, _, _)
JoinFrom(sep, strs, i, acc) ==
    IF i > Len(strs) THEN acc
    ELSE JoinFrom(sep, strs, i + 1,
                  IF i = 1 THEN strs[i][1] ELSE acc \o sep \o strs[i][1])

(* sep.join(strs): TypeError when an item is not a str *)
Join(sep, strs) ==
    IF \E i \in 1..Len(strs) : strs[i] = None
    THEN Raised("TypeError")
    ELSE Returned(JoinFrom(sep, strs, 1, <<>>))

(* min(vtops): keep the first item, replace it by any later smaller one *)
RECURSIVE MinFrom(_, _, _)
MinFrom(vtops, i, best) ==
    IF i > Len(vtops) THEN best
    ELSE MinFrom(vtops, i + 1,
                 IF FLess(vtops[i], best) THEN vtops[i] ELSE best)

RECURSIVE MaxFrom(_, _, _)
MaxFrom(vtops, i, best) ==
    IF i > Len(vtops) THEN best
    ELSE MaxFrom(vtops, i + 1,
                 IF FLess(best, vtops[i]) THEN vtops[i] ELSE best)

(* max(vtops) *)
Max(vtops) == MaxFrom(vtops, 2, vtops[1])

Min(vtops) == MinFrom(vtops, 2, vtops[1])

(* the loop over the groups; result is the list built so far *)
RECURSIVE MergeGroups(_, _, _)
MergeGroups(groups, sep, result) ==
    IF groups = <<>> THEN Returned(result)
    ELSE LET g == Head(groups)
             strs == [i \in 1..Len(g.grp) |-> g.grp[i][1]]
             vtops == [i \in 1..Len(g.grp) |-> g.grp[i][2]]
         IN  IF g.key THEN MergeGroups(Tail(groups), sep, result)
             ELSE IF Join(sep, strs).exc # "none" THEN Join(sep, strs)
             ELSE MergeGroups(Tail(groups), sep,
                     Append(result, <<Join(sep, strs).val, Min(vtops)>>))

merge_optional(ls, sep) == MergeGroups(GroupBy(ls), sep, <<>>)

DefaultSep == <<" ">>

(***************************************************************************)
(* extract_toc                                                             *)
(***************************************************************************)
ToCEntry(level, title, pagenum, vpos) ==
    [level |-> level, title |-> title, pagenum |-> pagenum, vpos |-> vpos]

(* the loop over the blocks of one page; entries is the list built so far *)
RECURSIVE BlockEntries(_, _, _)
BlockEntries(blocks, fltr, entries) ==
    IF blocks = <<>> THEN Returned(entries)
    ELSE LET merged == merge_optional(
                 extract_lines(fltr, Get(Head(blocks), "lines", <<>>)),
                 DefaultSep)
         IN  IF merged.exc # "none" THEN merged
             ELSE BlockEntries(Tail(blocks), fltr, entries \o merged.val)

(* the loop over the pages from page number pagenum on *)
RECURSIVE PageLoop(_, _, _, _)
PageLoop(pages, fltr, pagenum, result) ==
    IF pages = <<>> THEN Returned(result)
    ELSE LET entries == BlockEntries(Get(Head(pages), "blocks", <<>>),
                                     fltr, <<>>)
         IN  IF entries.exc # "none" THEN entries
             ELSE PageLoop(Tail(pages), fltr, pagenum + 1,
                     result \o
                     [i \in 1..Len(entries.val) |->
                         ToCEntry(fltr.level[1], entries.val[i][1],
                                  pagenum, entries.val[i][2])])

(* extract_toc with the entries list never emptied between pages *)
RECURSIVE PageLoopKeepEntries(_, _, _, _, _)
PageLoopKeepEntries(pages, fltr, pagenum, kept, result) ==
    IF pages = <<>> THEN Returned(result)
    ELSE LET entries == BlockEntries(Get(Head(pages), "blocks", <<>>),
                                     fltr, kept)
         IN  IF entries.exc # "none" THEN entries
             ELSE PageLoopKeepEntries(Tail(pages), fltr, pagenum + 1,
                     entries.val,
                     result \o
                     [i \in 1..Len(entries.val) |->
                         ToCEntry(fltr.level[1], entries.val[i][1],
                                  pagenum, entries.val[i][2])])

extract_toc_keep_entries(pages, fltr) ==
    PageLoopKeepEntries(pages, fltr, 1, <<>>, <<>>)

(* enumerate(pages) instead of enumerate(pages, 1) *)
extract_toc_from_zero(pages, fltr) == PageLoop(pages, fltr, 0, <<>>)

extract_toc(pages, fltr) == PageLoop(pages, fltr, 1, <<>>)

(***************************************************************************)
(* Inputs of the admits_float specification                                *)
(***************************************************************************)
MaxFloat == 2

FiniteFloats == {Fin(n) : n \in (0 - MaxFloat)..MaxFloat}

Floats == FiniteFloats \cup {PosInf, NegInf, NaN}

OptFloats == {None} \cup {Some(f) : f \in Floats}

Tolerances == Floats \cup {DEF_TOLERANCE}

Init ==
    /\ pc = "start"
    /\ call = NoCall
    /\ obj = None
    /\ ret = Returned(None)

AdmitsFloat ==
    /\ pc = "start"
    /\ \E expect \in OptFloats, actual \in OptFloats,
          tolerance \in Tolerances :
          /\ call' = [op |-> "admits_float", expect |-> expect,
                      actual |-> actual, tolerance |-> tolerance]
          /\ ret' = Returned(admits_float(expect, actual, tolerance))
    /\ pc' = "done"
    /\ UNCHANGED obj

NextFloat == AdmitsFloat

SpecFloat == Init /\ [][NextFloat]_vars

AbsInt(n) == IF n < 0 THEN 0 - n ELSE n

IsFinite(f) == f.k \in {"fin", "1e-5"}

(* a tolerance t with 0.0 <= t *)
NonNegative(t) ==
    (t.k = "inf" /\ t.v = 1) \/ (t.k = "fin" /\ t.v >= 0) \/ (t.k = "1e-5")

(* |e - a| <= t as real numbers, for whole numbers e and a and a finite   *)
(* tolerance t: a distance of whole numbers is within 1e-5 only when 0    *)
WithinTolerance(e, a, t) ==
    IF t.k = "1e-5" THEN e.v = a.v ELSE AbsInt(e.v - a.v) <= t.v

(* C8 as stated: admits_float is true when expect is None, false when     *)
(* expect is present and actual is None, true for present finite values   *)
(* exactly when |expect - actual| <= tolerance, and admits_float(a, a, t)  *)
(* is true for EVERY float a and every t >= 0.                             *)
C8_AdmitsFloatEveryFloat ==
    call.op = "admits_float" =>
        LET e == call.expect
            a == call.actual
            t == call.tolerance
        IN  /\ e = None => ret.val = TRUE
            /\ e # None /\ a = None => ret.val = FALSE
            /\ e # None /\ a # None /\ IsFinite(e[1]) /\ IsFinite(a[1])
                 /\ IsFinite(t)
                 => (ret.val <=> WithinTolerance(e[1], a[1], t))
            /\ e # None /\ a = e /\ NonNegative(t) => ret.val = TRUE

(* C8 amended: as C8, except that admits_float(a, a, t) is true for every *)
(* FINITE a and every t >= 0; for a NaN or infinite a it is false.        *)
C8_AdmitsFloat ==
    call.op = "admits_float" =>
        LET e == call.expect
            a == call.actual
            t == call.tolerance
        IN  /\ e = None => ret.val = TRUE
            /\ e # None /\ a = None => ret.val = FALSE
            /\ e # None /\ a # None /\ IsFinite(e[1]) /\ IsFinite(a[1])
                 /\ IsFinite(t)
                 => (ret.val <=> WithinTolerance(e[1], a[1], t))
            /\ e # None /\ a = e /\ IsFinite(e[1]) /\ NonNegative(t)
                 => ret.val = TRUE
            /\ e # None /\ a = e /\ ~IsFinite(e[1]) => ret.val = FALSE

(* the inclusive boundary: |0 - 2| = 2 <= 2 *)
C8_Witness ==
    /\ call.op = "admits_float"
    /\ call.expect = Some(Fin(0))
    /\ call.actual = Some(Fin(MaxFloat))
    /\ call.tolerance = Fin(MaxFloat)
    /\ ret.val = TRUE

(***************************************************************************)
(* FontFilter specification: build a filter, then test one span            *)
(***************************************************************************)
MaxFlags == 32

StyleKeys == {"superscript", "italic", "serif", "monospace", "bold"}

StyleDicts == UNION {[K -> BOOLEAN] : K \in SUBSET StyleKeys}

BadPattern == <<"(">>

FontBaseDicts ==
    { <<>>,
      [name |-> <<"b", ".">>, color |-> 1],
      [name |-> BadPattern],
      [size |-> Fin(2)],
      [size |-> Fin(2), size_tolerance |-> Fin(1)] }

FontDicts == {st @@ b : st \in StyleDicts, b \in FontBaseDicts}

FontSpanBases ==
    { <<>>,
      [font |-> <<"b", "a">>, color |-> 1, size |-> Fin(3)],
      [font |-> <<"b">>, color |-> 2, size |-> Fin(2)] }

FontSpans ==
    FontSpanBases \cup
    {[flags |-> f] @@ b : f \in 0..MaxFlags, b \in FontSpanBases}

FontFilterInit ==
    /\ pc = "start"
    /\ \E font_dict \in FontDicts :
          LET r == FontFilter_init(font_dict)
          IN  /\ call' = [op |-> "FontFilter", font_dict |-> font_dict]
              /\ obj' = r.self
              /\ ret' = IF r.exc = "none" THEN Returned(r.self)
                        ELSE Raised(r.exc)
              /\ pc' = IF r.exc = "none" THEN "font" ELSE "failed"

FontFilterAdmits ==
    /\ pc = "font"
    /\ \E spn \in FontSpans :
          /\ call' = [op |-> "FontFilter.admits",
                      font_dict |-> call.font_dict, spn |-> spn]
          /\ ret' = Returned(FontFilter_admits(obj, spn))
    /\ pc' = "done"
    /\ UNCHANGED obj

NextFont == FontFilterInit \/ FontFilterAdmits

SpecFont == Init /\ [][NextFont]_vars

(* the span passes the name, color and size checks of the configuration *)
PassesNameColorSize(font_dict, spn) ==
    /\ Search(Get(font_dict, "name", <<>>), Get(spn, "font", <<>>))
    /\ "color" \in DOMAIN font_dict =>
          "color" \in DOMAIN spn /\ spn["color"] = font_dict["color"]
    /\ "size" \in DOMAIN font_dict =>
          /\ "size" \in DOMAIN spn
          /\ WithinTolerance(font_dict["size"], spn["size"],
                             Get(font_dict, "size_tolerance", DEF_TOLERANCE))

StyleBit == [superscript |-> 1, italic |-> 2, serif |-> 4,
             monospace |-> 8, bold |-> 16]

SpanHasStyle(flags, key) == (flags \div StyleBit[key]) % 2 = 1

(* C1: a span without a 'flags' key that passes the name, color and size  *)
(* checks is admitted, whatever style flags the configuration constrains. *)
C1_MissingFlagsAdmitted ==
    (/\ call.op = "FontFilter.admits"
     /\ "flags" \notin DOMAIN call.spn
     /\ PassesNameColorSize(call.font_dict, call.spn))
    => ret.val = TRUE

(* C2: a span with a 'flags' integer that passes the name, color and size *)
(* checks is admitted iff every style key present in the configuration    *)
(* has the configured boolean as the span's bit; absent keys never matter.*)
C2_MaskedFlagTruthTable ==
    (/\ call.op = "FontFilter.admits"
     /\ "flags" \in DOMAIN call.spn
     /\ PassesNameColorSize(call.font_dict, call.spn))
    => (ret.val <=>
          \A key \in StyleKeys \cap DOMAIN call.font_dict :
              SpanHasStyle(call.spn["flags"], key) = call.font_dict[key])

(* a bold italic span is admitted by {bold: true} and rejected by         *)
(* {bold: true, italic: false}                                            *)
C2_Witness ==
    /\ call.op = "FontFilter.admits"
    /\ call.spn = [flags |-> 18]
    /\ \/ call.font_dict = [bold |-> TRUE] /\ ret.val = TRUE
       \/ call.font_dict = [bold |-> TRUE, italic |-> FALSE]
            /\ ret.val = FALSE

(***************************************************************************)
(* BoundingBoxFilter specification: build a filter, then test one span     *)
(***************************************************************************)
MaxCoord == 2

BoxKeys == <<"left", "top", "right", "bottom">>

BoxBounds == {Fin(1), Fin(MaxCoord)}

BoxCoords == {Fin(n) : n \in 0..MaxCoord}

BoundDicts ==
    UNION {[K -> BoxBounds] : K \in SUBSET {BoxKeys[i] : i \in 1..4}}

BBoxDicts == BoundDicts \cup {[tolerance |-> Fin(1)] @@ b : b \in BoundDicts}

BBoxSpans ==
    {<<>>} \cup {[bbox |-> b] : b \in [1..4 -> BoxCoords]}

BoundingBoxFilterInit ==
    /\ pc = "start"
    /\ \E bbox_dict \in BBoxDicts :
          /\ call' = [op |-> "BoundingBoxFilter", bbox_dict |-> bbox_dict]
          /\ obj' = BoundingBoxFilter_init(bbox_dict)
    /\ pc' = "bbox"
    /\ UNCHANGED ret

BoundingBoxFilterAdmits ==
    /\ pc = "bbox"
    /\ \E spn \in BBoxSpans :
          /\ call' = [op |-> "BoundingBoxFilter.admits",
                      bbox_dict |-> call.bbox_dict, spn |-> spn]
          /\ ret' = Returned(BoundingBoxFilter_admits(obj, spn))
    /\ pc' = "done"
    /\ UNCHANGED obj

NextBBox == BoundingBoxFilterInit \/ BoundingBoxFilterAdmits

SpecBBox == Init /\ [][NextBBox]_vars

(* bound i of the configuration is unset, or the span has a bbox whose    *)
(* coordinate i is within the tolerance of it                             *)
BoundHolds(bbox_dict, spn, i) ==
    BoxKeys[i] \in DOMAIN bbox_dict =>
        /\ "bbox" \in DOMAIN spn
        /\ WithinTolerance(bbox_dict[BoxKeys[i]], spn["bbox"][i],
                           Get(bbox_dict, "tolerance", DEF_TOLERANCE))

(* C9: the span is admitted iff each of left/top/right/bottom is unset or *)
(* within the shared tolerance of the span's coordinate; a span without a *)
(* bbox is admitted exactly when all four bounds are unset.               *)
C9_BoundingBoxAdmits ==
    call.op = "BoundingBoxFilter.admits" =>
        /\ ret.val <=> \A i \in 1..4 : BoundHolds(call.bbox_dict, call.spn, i)
        /\ "bbox" \notin DOMAIN call.spn =>
              (ret.val <=>
                 \A i \in 1..4 : BoxKeys[i] \notin DOMAIN call.bbox_dict)

(* only top is set, and only the span's top is within the tolerance of    *)
(* it, at the inclusive boundary                                          *)
C9_Witness ==
    /\ call.op = "BoundingBoxFilter.admits"
    /\ call.bbox_dict = [top |-> Fin(MaxCoord), tolerance |-> Fin(1)]
    /\ call.spn = [bbox |-> <<Fin(0), Fin(MaxCoord - 1), Fin(0), Fin(0)>>]
    /\ ret.val = TRUE

(***************************************************************************)
(* merge_optional specification                                            *)
(***************************************************************************)
MaxLen == 4

MergeTexts == {<<>>, <<"a">>, <<"b">>}

MergeVpos == {Fin(1), Fin(2)}

MergeItems == {None} \cup {<<Some(t), v>> : t \in MergeTexts, v \in MergeVpos}

MergeLists == UNION {[1..n -> MergeItems] : n \in 0..MaxLen}

MergeSeps == {DefaultSep, <<"-", "-">>}

MergeOptional ==
    /\ pc = "start"
    /\ \E ls \in MergeLists, sep \in MergeSeps :
          /\ call' = [op |-> "merge_optional", ls |-> ls, sep |-> sep]
          /\ ret' = merge_optional(ls, sep)
    /\ pc' = "done"
    /\ UNCHANGED obj

NextMerge == MergeOptional

SpecMerge == Init /\ [][NextMerge]_vars

(* the first positions of the maximal runs of non-None items *)
RunStarts(ls) ==
    {i \in 1..Len(ls) : ls[i] # None /\ (i = 1 \/ ls[i - 1] = None)}

(* the last position of the maximal run that starts at i *)
RunEnd(ls, i) ==
    CHOOSE j \in i..Len(ls) :
        /\ \A m \in i..j : ls[m] # None
        /\ j = Len(ls) \/ ls[j + 1] = None

KthStart(ls, k) ==
    CHOOSE i \in RunStarts(ls) :
        Cardinality({j \in RunStarts(ls) : j < i}) = k - 1

(* the texts of positions i..j in order with sep between neighbours; a    *)
(* missing text counts as the empty string                                *)
RECURSIVE JoinRange(_, _, _, _)
JoinRange(ls, i, j, sep) ==
    LET text == IF ls[i][1] = None THEN <<>> ELSE ls[i][1][1]
    IN  IF i = j THEN text ELSE text \o sep \o JoinRange(ls, i + 1, j, sep)

(* C3: the output has one pair per maximal run of non-None items, in      *)
(* order; its text is the run's texts joined by the separator, its vpos   *)
(* the least vpos of the run; an empty or all-None input gives the empty  *)
(* output and a non-empty input without None gives exactly one pair.      *)
C3_MergeOptionalRuns ==
    call.op = "merge_optional" =>
        LET ls == call.ls
            out == ret.val
        IN  /\ ret.exc = "none"
            /\ Len(out) = Cardinality(RunStarts(ls))
            /\ \A k \in 1..Len(out) :
                  LET i == KthStart(ls, k)
                      j == RunEnd(ls, i)
                  IN  /\ out[k][1] = JoinRange(ls, i, j, call.sep)
                      /\ \E m \in i..j : out[k][2] = ls[m][2]
                      /\ \A m \in i..j : out[k][2].v <= ls[m][2].v
            /\ (\A i \in 1..Len(ls) : ls[i] = None) => out = <<>>
            /\ (ls # <<>> /\ \A i \in 1..Len(ls) : ls[i] # None)
                  => Len(out) = 1

(* two runs split by a None, the first one merging two pairs *)
C3_Witness ==
    /\ call.op = "merge_optional"
    /\ call.sep = DefaultSep
    /\ call.ls = << <<Some(<<"a">>), Fin(2)>>, <<Some(<<"b">>), Fin(1)>>,
                    None, <<Some(<<"a">>), Fin(2)>> >>
    /\ ret.val = << <<(<<"a", " ", "b">>), Fin(1)>>, <<(<<"a">>), Fin(2)>> >>

(***************************************************************************)
(* ToCFilter and extract_toc specification: build a filter from a filter   *)
(* record, then extract from a list of pages                               *)
(***************************************************************************)
MaxTokens == 4

MaxLevel == 2

TocSpans ==
    { [text |-> <<"a">>, font |-> <<"a">>, flags |-> 16,
       bbox |-> <<Fin(0), Fin(2), Fin(1), Fin(2)>>],
      [text |-> <<"b">>, font |-> <<"a">>, flags |-> 16,
       bbox |-> <<Fin(0), Fin(1), Fin(1), Fin(1)>>],
      [text |-> <<"c">>, font |-> <<"b">>, flags |-> 0,
       bbox |-> <<Fin(0), Fin(1), Fin(1), Fin(1)>>],
      [font |-> <<"a">>] }

(* A list of pages is written as a list of tokens: a span, or the end of  *)
(* a line, of a block or of a page.                                       *)
EndOf(what) == [end |-> what]

Tokens == TocSpans \cup {EndOf("line"), EndOf("block"), EndOf("page")}

(* the pieces of tokens between the occurrences of end, without a final   *)
(* empty piece                                                            *)
RECURSIVE Pieces(_, _)
Pieces(tokens, end) ==
    IF tokens = <<>> THEN <<>>
    ELSE LET n == CHOOSE m \in 1..(Len(tokens) + 1) :
                     /\ \A i \in 1..(m - 1) : tokens[i] # end
                     /\ m = Len(tokens) + 1 \/ tokens[m] = end
         IN  <<SubSeq(tokens, 1, n - 1)>>
             \o Pieces(SubSeq(tokens, n + 1, Len(tokens)), end)

(* a dict with one list-valued key; an empty list leaves the key out *)
ListDict(key, list) == IF list = <<>> THEN <<>> ELSE [k \in {key} |-> list]

LineOf(tokens) == ListDict("spans", tokens)

BlockOf(tokens) ==
    LET ps == Pieces(tokens, EndOf("line"))
    IN  ListDict("lines", [i \in 1..Len(ps) |-> LineOf(ps[i])])

PageOf(tokens) ==
    LET ps == Pieces(tokens, EndOf("block"))
    IN  ListDict("blocks", [i \in 1..Len(ps) |-> BlockOf(ps[i])])

PagesOf(tokens) ==
    LET ps == Pieces(tokens, EndOf("page"))
    IN  [i \in 1..Len(ps) |-> PageOf(ps[i])]

TocPageLists ==
    {PagesOf(t) : t \in UNION {[1..n -> Tokens] : n \in 0..MaxTokens}}

LevelDicts == {<<>>} \cup {[level |-> n] : n \in -1..MaxLevel}

FilterBodies ==
    { <<>>,
      [font |-> [name |-> <<"^", "a", "$">>]],
      [font |-> [name |-> BadPattern]],
      [font |-> [bold |-> TRUE], bbox |-> <<>>],
      [bbox |-> [top |-> Fin(1), tolerance |-> Fin(0)]] }

FilterDicts == {l @@ b : l \in LevelDicts, b \in FilterBodies}

ToCFilterInit ==
    /\ pc = "start"
    /\ \E fltr_dict \in FilterDicts :
          LET r == ToCFilter_init(fltr_dict)
          IN  /\ call' = [op |-> "ToCFilter", fltr_dict |-> fltr_dict]
              /\ obj' = r.self
              /\ ret' = IF r.exc = "none" THEN Returned(r.self)
                        ELSE Raised(r.exc)
              /\ pc' = IF r.exc = "none" THEN "toc" ELSE "failed"

ExtractToc ==
    /\ pc = "toc"
    /\ \E pages \in TocPageLists :
          /\ call' = [op |-> "extract_toc", fltr_dict |-> call.fltr_dict,
                      pages |-> pages]
          /\ ret' = extract_toc(pages, obj)
    /\ pc' = "done"
    /\ UNCHANGED obj

NextToC == ToCFilterInit \/ ExtractToc

SpecToC == Init /\ [][NextToC]_vars

(* the font name of the filter record is a pattern that re.compile takes *)
NameCompiles(d) == Compiles(Get(Get(d, "font", <<>>), "name", <<>>))

(* C6 as stated: construction succeeds iff 'level' is present and >= 1;   *)
(* an absent level fails with the 'level is not set' error, a level < 1   *)
(* with the 'level must be >= 1' error; a failed construction returns no  *)
(* filter and has built neither the font nor the bbox predicate.          *)
C6_ConstructionNeedsLevel ==
    call.op = "ToCFilter" =>
        LET d == call.fltr_dict
        IN  /\ ret.exc = "none" <=> ("level" \in DOMAIN d /\ d["level"] >= 1)
            /\ "level" \notin DOMAIN d => ret.exc = LevelNotSet
            /\ ("level" \in DOMAIN d /\ d["level"] < 1)
                  => ret.exc = LevelTooSmall
            /\ LevelNotSet # LevelTooSmall
            /\ ret.exc # "none" =>
                  /\ ret.val = None
                  /\ pc = "failed"
                  /\ "font" \notin DOMAIN obj
                  /\ "bbox" \notin DOMAIN obj

(* C6 amended: construction succeeds iff 'level' is present and >= 1 AND  *)
(* the font name is a well-formed pattern.  An absent level fails with    *)
(* the 'level is not set' error and a level < 1 with the 'level must be   *)
(* >= 1' error, whatever the font name; a level >= 1 with a malformed     *)
(* font name fails with re.error.  A failed construction returns no       *)
(* filter and has built neither the font nor the bbox predicate; a        *)
(* successful one holds the level and both predicates.                    *)
C6_ConstructionNeedsLevelAndPattern ==
    call.op = "ToCFilter" =>
        LET d == call.fltr_dict
        IN  /\ ret.exc = "none" <=>
                  ("level" \in DOMAIN d /\ d["level"] >= 1 /\ NameCompiles(d))
            /\ "level" \notin DOMAIN d => ret.exc = LevelNotSet
            /\ ("level" \in DOMAIN d /\ d["level"] < 1)
                  => ret.exc = LevelTooSmall
            /\ ("level" \in DOMAIN d /\ d["level"] >= 1 /\ ~NameCompiles(d))
                  => ret.exc = ReError
            /\ Cardinality({LevelNotSet, LevelTooSmall, ReError}) = 3
            /\ ret.exc # "none" =>
                  /\ ret.val = None
                  /\ pc = "failed"
                  /\ "font" \notin DOMAIN obj
                  /\ "bbox" \notin DOMAIN obj
            /\ ret.exc = "none" =>
                  /\ ret.val = obj
                  /\ pc = "toc"
                  /\ obj.level = Some(d["level"])
                  /\ obj.font = FontFilter_init(Get(d, "font", <<>>)).self
                  /\ obj.bbox = BoundingBoxFilter_init(Get(d, "bbox", <<>>))

(* level 1 with the font name '(' fails with re.error after the level was *)
(* assigned and before any predicate; the same name with level 0 fails    *)
(* with the 'must be >= 1' error                                          *)
C6_Witness ==
    /\ call.op = "ToCFilter"
    /\ call.fltr_dict = [level |-> 1, font |-> [name |-> BadPattern]]
    /\ ret.exc = ReError
    /\ pc = "failed"
    /\ DOMAIN obj = {"level"}

(***************************************************************************)
(* What a list of pages holds, read off the pages themselves               *)
(***************************************************************************)
RECURSIVE FlatSpans(_)
FlatSpans(lines) ==
    IF lines = <<>> THEN <<>>
    ELSE Get(Head(lines), "spans", <<>>) \o FlatSpans(Tail(lines))

BlocksAt(pages, p) == Get(pages[p], "blocks", <<>>)

(* the spans of block b of page p in line order then span order, each     *)
(* admitted span as its (text or None, top), each other span as None      *)
Marks(pages, fltr, p, b) ==
    LET spns == FlatSpans(Get(BlocksAt(pages, p)[b], "lines", <<>>))
    IN  [i \in 1..Len(spns) |->
            IF ToCFilter_admits(fltr, spns[i])
            THEN <<GetOpt(spns[i], "text"), SpanTop(spns[i])>>
            ELSE None]

(* <<p, b, i>>: a maximal run of admitted spans starts at span i of block *)
(* b of page p                                                            *)
RunKeys(pages, fltr) ==
    UNION {UNION {{<<p, b, i>> : i \in RunStarts(Marks(pages, fltr, p, b))} :
                  b \in 1..Len(BlocksAt(pages, p))} :
           p \in 1..Len(pages)}

KeyLess(q, r) ==
    \/ q[1] < r[1]
    \/ q[1] = r[1] /\ q[2] < r[2]
    \/ q[1] = r[1] /\ q[2] = r[2] /\ q[3] < r[3]

KthKey(keys, k) ==
    CHOOSE r \in keys : Cardinality({q \in keys : KeyLess(q, r)}) = k - 1

(* C4: every returned entry has the filter's level and the 1-based index  *)
(* of its page; the entries are in page order, then block order, then     *)
(* span order, whatever their vpos; no pages give no entries.             *)
C4_EntriesInDocumentOrder ==
    call.op = "extract_toc" =>
        LET keys == RunKeys(call.pages, obj)
        IN  /\ call.pages = <<>> => ret = Returned(<<>>)
            /\ ret.exc = "none" =>
                  /\ Len(ret.val) = Cardinality(keys)
                  /\ \A k \in 1..Len(ret.val) :
                        LET r == KthKey(keys, k)
                            marks == Marks(call.pages, obj, r[1], r[2])
                            last == RunEnd(marks, r[3])
                        IN  /\ ret.val[k].level = call.fltr_dict["level"]
                            /\ ret.val[k].pagenum = r[1]
                            /\ ret.val[k].title =
                                  JoinRange(marks, r[3], last, DefaultSep)
                            /\ \E m \in r[3]..last :
                                  ret.val[k].vpos = marks[m][2]

(* an empty first page, and two entries of the second page of which the  *)
(* lower one (greater vpos) comes first                                   *)
C4_Witness ==
    /\ call.op = "extract_toc"
    /\ Len(call.pages) = 2
    /\ ret.exc = "none"
    /\ Len(ret.val) = 2
    /\ ret.val[1].pagenum = 2
    /\ ret.val[2].pagenum = 2
    /\ ret.val[1].level = MaxLevel
    /\ FLess(ret.val[2].vpos, ret.val[1].vpos)

(* C5: admitted spans share an entry iff they are in the same block with  *)
(* no non-admitted span between them: every page yields exactly one entry *)
(* per maximal run of admitted spans of each of its blocks, so admitted   *)
(* spans of two blocks always yield distinct entries.                     *)
C5_OneEntryPerRunOfEachBlock ==
    call.op = "extract_toc" =>
        /\ ret.exc = "none"
        /\ \A p \in 1..Len(call.pages) :
              Cardinality({k \in 1..Len(ret.val) : ret.val[k].pagenum = p})
                 = Cardinality({r \in RunKeys(call.pages, obj) : r[1] = p})

(* C7: extract_toc never raises, whatever keys the spans lack; an admitted *)
(* span without 'text' contributes the empty string to its title.         *)
C7_MissingKeysNeverRaise ==
    call.op = "extract_toc" =>
        /\ ret.exc = "none"
        /\ \A k \in 1..Len(ret.val) :
              LET r == KthKey(RunKeys(call.pages, obj), k)
                  marks == Marks(call.pages, obj, r[1], r[2])
              IN  ret.val[k].title =
                     JoinRange(marks, r[3], RunEnd(marks, r[3]), DefaultSep)

(* the result of A followed by the result of B, B's pages numbered after  *)
(* the n pages of A; an exception of either is the exception of the whole *)
Followed(ra, rb, n) ==
    IF ra.exc # "none" THEN ra
    ELSE IF rb.exc # "none" THEN rb
    ELSE Returned(ra.val \o
                  [i \in 1..Len(rb.val) |->
                      [rb.val[i] EXCEPT !.pagenum = @ + n]])

(* C10: for every split of the pages into a prefix A and a suffix B,      *)
(* extract_toc(A ++ B) is extract_toc(A) followed by extract_toc(B) with  *)
(* the page numbers of B increased by the length of A.                    *)
C10_PageIndependence ==
    call.op = "extract_toc" =>
        \A n \in 0..Len(call.pages) :
            ret = Followed(
                      extract_toc(SubSeq(call.pages, 1, n), obj),
                      extract_toc(SubSeq(call.pages, n + 1,
                                         Len(call.pages)), obj),
                      n)

(* both pages of a two-page list yield an entry *)
C10_Witness ==
    /\ call.op = "extract_toc"
    /\ Len(call.pages) = 2
    /\ ret.exc = "none"
    /\ \E k \in 1..Len(ret.val) : ret.val[k].pagenum = 1
    /\ \E k \in 1..Len(ret.val) : ret.val[k].pagenum = 2

(***************************************************************************)
(* The module as a whole: any one of the operations                        *)
(***************************************************************************)
Next == NextFloat \/ NextFont \/ NextBBox \/ NextMerge \/ NextToC

Spec == Init /\ [][Next]_vars

====
